---- MODULE Spec2Model ----
(***************************************************************************)
(* Model of consulite (src/src/lib.rs): a client of Consul's KV HTTP API.  *)
(*                                                                         *)
(* Strings and byte vectors are sequences of character codes (ASCII), so   *)
(* that JSON encoding and parsing, base64, URL joining and the query       *)
(* string are computed on the text itself.  Option<T> is a sequence of     *)
(* length 0 (None) or 1 (Some), Result<T, E> is a record with an ok flag.  *)
(***************************************************************************)
EXTENDS Integers, Sequences, FiniteSets, TLC

VARIABLES client, kv, called, verb, sent, request, response, result,
          store, index, written

vars == <<client, kv, called, verb, sent, request, response, result,
          store, index, written>>

----------------------------------------------------------------------------
(* Option and Result *)

None == <<>>
Some(x) == <<x>>
IsSome(o) == Len(o) = 1

Ok(x) == [ok |-> TRUE, v |-> <<x>>, err |-> ""]
Err(e) == [ok |-> FALSE, v |-> <<>>, err |-> e]

----------------------------------------------------------------------------
(* Text helpers *)

IsDigit(c) == c >= 48 /\ c <= 57
IsAlnum(c) == IsDigit(c) \/ (c >= 65 /\ c <= 90) \/ (c >= 97 /\ c <= 122)

RECURSIVE Digits(_)
\* decimal text of a natural number
Digits(n) == IF n < 10 THEN <<48 + n>> ELSE Digits(n \div 10) \o <<48 + (n % 10)>>

IsPrefix(p, s) == Len(p) <= Len(s) /\ SubSeq(s, 1, Len(p)) = p

RECURSIVE StrLess(_, _)
\* byte-wise lexicographic order of two texts (the order of a BTreeMap's keys)
StrLess(a, b) ==
    IF b = <<>> THEN FALSE
    ELSE IF a = <<>> THEN TRUE
    ELSE IF Head(a) # Head(b) THEN Head(a) < Head(b)
    ELSE StrLess(Tail(a), Tail(b))

----------------------------------------------------------------------------
(* serde_json::Value *)

JNull == [t |-> "null"]
JBool(b) == [t |-> "bool", b |-> b]
JNum(n) == [t |-> "num", n |-> n]
JStr(s) == [t |-> "str", s |-> s]
JArr(a) == [t |-> "arr", a |-> a]
\* an object: its keys in sorted order and the values at the same positions
JObj(k, a) == [t |-> "obj", k |-> k, a |-> a]

RECURSIVE MapInsert(_, _, _, _)
\* serde_json::Map::insert: keys stay sorted, a repeated key is replaced
MapInsert(ks, vs, k, v) ==
    IF ks = <<>> THEN [k |-> <<k>>, a |-> <<v>>]
    ELSE IF Head(ks) = k THEN [k |-> ks, a |-> <<v>> \o Tail(vs)]
    ELSE IF StrLess(k, Head(ks)) THEN [k |-> <<k>> \o ks, a |-> <<v>> \o vs]
    ELSE LET r == MapInsert(Tail(ks), Tail(vs), k, v)
         IN  [k |-> <<Head(ks)>> \o r.k, a |-> <<Head(vs)>> \o r.a]

\* serde_json::Map::get
MapGet(j, name) ==
    LET hits == {i \in 1..Len(j.k) : j.k[i] = name}
    IN  IF hits = {} THEN None ELSE Some(j.a[CHOOSE i \in hits : TRUE])

RECURSIVE ToJson(_)
RECURSIVE JoinItems(_)
RECURSIVE JoinMembers(_, _)
\* the elements of an array, comma separated
JoinItems(a) ==
    IF a = <<>> THEN <<>>
    ELSE IF Len(a) = 1 THEN ToJson(a[1])
    ELSE ToJson(a[1]) \o <<44>> \o JoinItems(Tail(a))
\* the members of an object, comma separated
JoinMembers(k, a) ==
    IF k = <<>> THEN <<>>
    ELSE LET m == <<34>> \o k[1] \o <<34, 58>> \o ToJson(a[1])
         IN  IF Len(k) = 1 THEN m ELSE m \o <<44>> \o JoinMembers(Tail(k), Tail(a))
\* serde_json::to_vec: the compact JSON text of a value
ToJson(j) ==
    CASE j.t = "null" -> <<110, 117, 108, 108>>
      [] j.t = "bool" -> IF j.b THEN <<116, 114, 117, 101>> ELSE <<102, 97, 108, 115, 101>>
      [] j.t = "num"  -> IF j.n < 0 THEN <<45>> \o Digits(0 - j.n) ELSE Digits(j.n)
      [] j.t = "str"  -> <<34>> \o j.s \o <<34>>
      [] j.t = "arr"  -> <<91>> \o JoinItems(j.a) \o <<93>>
      [] j.t = "obj"  -> <<123>> \o JoinMembers(j.k, j.a) \o <<125>>

ParseFail == [ok |-> FALSE, v |-> JNull, i |-> 0]
ParseOk(v, i) == [ok |-> TRUE, v |-> v, i |-> i]
At(t, i) == IF i >= 1 /\ i <= Len(t) THEN t[i] ELSE 0
Lit(t, i, w) == i + Len(w) - 1 <= Len(t) /\ SubSeq(t, i, i + Len(w) - 1) = w

RECURSIVE ScanDigits(_, _, _)
\* the digits from position i on: their value and the position after them
ScanDigits(t, i, acc) ==
    IF IsDigit(At(t, i)) THEN ScanDigits(t, i + 1, acc * 10 + (At(t, i) - 48))
    ELSE [n |-> acc, i |-> i]

RECURSIVE FindQuote(_, _)
\* the position of the quote closing a string whose text starts at i; 0 when
\* there is none (texts with escapes are outside the modelled inputs)
FindQuote(t, i) ==
    IF i > Len(t) \/ t[i] = 92 \/ t[i] < 32 THEN 0
    ELSE IF t[i] = 34 THEN i
    ELSE FindQuote(t, i + 1)

\* a JSON number at i: an optional minus sign, then 0 or digits without a leading 0
ParseNumber(t, i) ==
    LET neg == At(t, i) = 45
        j == IF neg THEN i + 1 ELSE i
        d == ScanDigits(t, j, 0)
    IN  IF ~IsDigit(At(t, j)) \/ (At(t, j) = 48 /\ d.i > j + 1) THEN ParseFail
        ELSE ParseOk(JNum(IF neg THEN 0 - d.n ELSE d.n), d.i)

RECURSIVE ParseValue(_, _)
RECURSIVE ParseElems(_, _, _)
RECURSIVE ParseMembers(_, _, _)
\* the elements of an array from position i on, up to the closing bracket
ParseElems(t, i, acc) ==
    LET r == ParseValue(t, i)
    IN  IF ~r.ok THEN ParseFail
        ELSE IF At(t, r.i) = 44 THEN ParseElems(t, r.i + 1, Append(acc, r.v))
        ELSE IF At(t, r.i) = 93 THEN ParseOk(JArr(Append(acc, r.v)), r.i + 1)
        ELSE ParseFail
\* the members of an object from position i on, up to the closing brace
ParseMembers(t, i, acc) ==
    LET q == IF At(t, i) = 34 THEN FindQuote(t, i + 1) ELSE 0
        r == IF q > 0 /\ At(t, q + 1) = 58 THEN ParseValue(t, q + 2) ELSE ParseFail
        m == MapInsert(acc.k, acc.a, SubSeq(t, i + 1, q - 1), r.v)
    IN  IF ~r.ok THEN ParseFail
        ELSE IF At(t, r.i) = 44 THEN ParseMembers(t, r.i + 1, m)
        ELSE IF At(t, r.i) = 125 THEN ParseOk(JObj(m.k, m.a), r.i + 1)
        ELSE ParseFail
\* one JSON value at position i of text t (compact JSON: the modelled texts
\* carry no white space)
ParseValue(t, i) ==
    LET c == At(t, i)
    IN  CASE c = 110 -> IF Lit(t, i, <<110, 117, 108, 108>>) THEN ParseOk(JNull, i + 4) ELSE ParseFail
          [] c = 116 -> IF Lit(t, i, <<116, 114, 117, 101>>) THEN ParseOk(JBool(TRUE), i + 4) ELSE ParseFail
          [] c = 102 -> IF Lit(t, i, <<102, 97, 108, 115, 101>>) THEN ParseOk(JBool(FALSE), i + 5) ELSE ParseFail
          [] c = 45 \/ IsDigit(c) -> ParseNumber(t, i)
          [] c = 34 -> LET q == FindQuote(t, i + 1)
                       IN  IF q = 0 THEN ParseFail ELSE ParseOk(JStr(SubSeq(t, i + 1, q - 1)), q + 1)
          [] c = 91 -> IF At(t, i + 1) = 93 THEN ParseOk(JArr(<<>>), i + 2)
                       ELSE ParseElems(t, i + 1, <<>>)
          [] c = 123 -> IF At(t, i + 1) = 125 THEN ParseOk(JObj(<<>>, <<>>), i + 2)
                        ELSE ParseMembers(t, i + 1, [k |-> <<>>, a |-> <<>>])
          [] OTHER -> ParseFail

\* serde_json::from_str / from_slice: the value when the whole text is one
\* JSON value, an error otherwise
FromJson(t) ==
    LET r == ParseValue(t, 1)
    IN  IF r.ok /\ r.i = Len(t) + 1 THEN Ok(r.v) ELSE Err("json")

----------------------------------------------------------------------------
(* base64, standard alphabet with padding *)

\* the character of a 6-bit value
B64Char(n) ==
    IF n < 26 THEN 65 + n
    ELSE IF n < 52 THEN 97 + (n - 26)
    ELSE IF n < 62 THEN 48 + (n - 52)
    ELSE IF n = 62 THEN 43 ELSE 47

\* the 6-bit value of a character, -1 for a character outside the alphabet
B64Val(c) ==
    IF c >= 65 /\ c <= 90 THEN c - 65
    ELSE IF c >= 97 /\ c <= 122 THEN c - 97 + 26
    ELSE IF IsDigit(c) THEN c - 48 + 52
    ELSE IF c = 43 THEN 62
    ELSE IF c = 47 THEN 63 ELSE 0 - 1

RECURSIVE B64Encode(_)
\* BASE64_STANDARD.encode
B64Encode(b) ==
    IF b = <<>> THEN <<>>
    ELSE IF Len(b) = 1 THEN
        <<B64Char(b[1] \div 4), B64Char((b[1] % 4) * 16), 61, 61>>
    ELSE IF Len(b) = 2 THEN
        <<B64Char(b[1] \div 4), B64Char((b[1] % 4) * 16 + b[2] \div 16),
          B64Char((b[2] % 16) * 4), 61>>
    ELSE
        <<B64Char(b[1] \div 4), B64Char((b[1] % 4) * 16 + b[2] \div 16),
          B64Char((b[2] % 16) * 4 + b[3] \div 64), B64Char(b[3] % 64)>>
        \o B64Encode(SubSeq(b, 4, Len(b)))

RECURSIVE B64Decode(_)
\* BASE64_STANDARD.decode: canonical padding and no stray trailing bits
B64Decode(s) ==
    IF s = <<>> THEN Ok(<<>>)
    ELSE IF Len(s) < 4 THEN Err("base64")
    ELSE
        LET a == B64Val(s[1])
            b == B64Val(s[2])
            c == B64Val(s[3])
            d == B64Val(s[4])
            last == Len(s) = 4
        IN  IF a < 0 \/ b < 0 THEN Err("base64")
            ELSE IF s[3] = 61 THEN
                IF last /\ s[4] = 61 /\ b % 16 = 0
                THEN Ok(<<a * 4 + b \div 16>>) ELSE Err("base64")
            ELSE IF c < 0 THEN Err("base64")
            ELSE IF s[4] = 61 THEN
                IF last /\ c % 4 = 0
                THEN Ok(<<a * 4 + b \div 16, (b % 16) * 16 + c \div 4>>)
                ELSE Err("base64")
            ELSE IF d < 0 THEN Err("base64")
            ELSE LET r == B64Decode(SubSeq(s, 5, Len(s)))
                 IN  IF ~r.ok THEN r
                     ELSE Ok(<<a * 4 + b \div 16, (b % 16) * 16 + c \div 4, (c % 4) * 64 + d>>
                             \o r.v[1])

----------------------------------------------------------------------------
(* URLs: a URL is modelled by its path; scheme, host and port are fixed    *)
(* by the Client and no operation changes them.  The key paths of the      *)
(* model carry no '?' and no '#'.                                          *)

RECURSIVE Split(_, _)
\* the pieces of text s between occurrences of character c
Split(s, c) ==
    LET hits == {i \in 1..Len(s) : s[i] = c}
    IN  IF hits = {} THEN <<s>>
        ELSE LET i == CHOOSE h \in hits : \A g \in hits : h <= g
             IN  <<SubSeq(s, 1, i - 1)>> \o Split(SubSeq(s, i + 1, Len(s)), c)

RECURSIVE JoinWith(_, _)
\* the texts of ss with character c between them
JoinWith(ss, c) ==
    IF ss = <<>> THEN <<>>
    ELSE IF Len(ss) = 1 THEN ss[1]
    ELSE ss[1] \o <<c>> \o JoinWith(Tail(ss), c)

Front(ss) == SubSeq(ss, 1, Len(ss) - 1)

RECURSIVE Resolve(_, _)
\* url::Url::join, path part: append the segments of a relative reference to
\* the segments out, removing dot segments
Resolve(out, segs) ==
    IF segs = <<>> THEN out
    ELSE LET s == Head(segs)
             last == Len(segs) = 1
         IN  IF s = <<46, 46>> THEN
                 Resolve((IF out = <<>> THEN out ELSE Front(out))
                         \o (IF last THEN <<<<>>>> ELSE <<>>), Tail(segs))
             ELSE IF s = <<46>> THEN
                 Resolve(out \o (IF last THEN <<<<>>>> ELSE <<>>), Tail(segs))
             ELSE Resolve(Append(out, s), Tail(segs))

\* url::Url::join for a relative reference without scheme: an absolute path
\* replaces the base's path, any other reference replaces its last segment
UrlJoin(base, rel) ==
    LET bsegs == Split(Tail(base), 47)
        rsegs == Split(rel, 47)
    IN  IF rel # <<>> /\ rel[1] = 47
        THEN Ok(<<47>> \o JoinWith(Resolve(<<>>, Tail(rsegs)), 47))
        ELSE Ok(<<47>> \o JoinWith(Resolve(Front(bsegs), rsegs), 47))

\* Client::new: the parsed URL; a URL without a path has the path "/"
ClientNew(url) == [url |-> IF url = <<>> THEN <<47>> ELSE url]

----------------------------------------------------------------------------
(* Kv, the request builder *)

KvQueryDefault == [dc |-> None, recurse |-> None, raw |-> None, keys |-> None,
                   separator |-> None]

\* Kv::new: the path is "v1/kv/" followed by the caller's key path
KvNew(path) ==
    [path |-> <<118, 49, 47, 107, 118, 47>> \o path,
     query |-> KvQueryDefault, payload |-> None, body |-> None]

dc(self, v) == [self EXCEPT !.query.dc = Some(v)]
recurse(self, value) == [self EXCEPT !.query.recurse = Some(value)]
raw(self, value) == [self EXCEPT !.query.raw = Some(value)]
keys(self, value) == [self EXCEPT !.query.keys = Some(value)]
separator(self, v) == [self EXCEPT !.query.separator = Some(v)]
payload(self, v) == [self EXCEPT !.payload = Some(v)]
body(self, v) == [self EXCEPT !.body = Some(v)]


----------------------------------------------------------------------------
(* The request: reqwest::RequestBuilder and serde_urlencoded *)

HexDigit(n) == IF n < 10 THEN 48 + n ELSE 55 + n

RECURSIVE FormEncode(_)
\* application/x-www-form-urlencoded byte serializer
FormEncode(s) ==
    IF s = <<>> THEN <<>>
    ELSE LET c == Head(s)
         IN  (IF IsAlnum(c) \/ c \in {42, 45, 46, 95} THEN <<c>>
              ELSE IF c = 32 THEN <<43>>
              ELSE <<37, HexDigit(c \div 16), HexDigit(c % 16)>>)
             \o FormEncode(Tail(s))

BoolText(b) == IF b THEN <<116, 114, 117, 101>> ELSE <<102, 97, 108, 115, 101>>

\* the text of a field's value: true or false for a bool
ValueText(v, isBool) == IF isBool THEN BoolText(v) ELSE v

\* one field of KvQuery as serde_urlencoded writes it: nothing for None
QueryField(name, val, isBool) ==
    IF IsSome(val) THEN <<name \o <<61>> \o FormEncode(ValueText(val[1], isBool))>>
    ELSE <<>>

\* KvQuery serialized with an empty value for every field that is None
QueryPairs_all(q) ==
    LET field(name, val, isBool) ==
            <<name \o <<61>>
              \o (IF IsSome(val) THEN FormEncode(ValueText(val[1], isBool)) ELSE <<>>)>>
    IN  field(<<100, 99>>, q.dc, FALSE)
        \o field(<<114, 101, 99, 117, 114, 115, 101>>, q.recurse, TRUE)
        \o field(<<114, 97, 119>>, q.raw, TRUE)
        \o field(<<107, 101, 121, 115>>, q.keys, TRUE)
        \o field(<<115, 101, 112, 97, 114, 97, 116, 111, 114>>, q.separator, FALSE)

\* derive(Serialize) for KvQuery through serde_urlencoded: the pairs of the
\* fields in declaration order
QueryPairs(q) ==
    QueryField(<<100, 99>>, q.dc, FALSE)
    \o QueryField(<<114, 101, 99, 117, 114, 115, 101>>, q.recurse, TRUE)
    \o QueryField(<<114, 97, 119>>, q.raw, TRUE)
    \o QueryField(<<107, 101, 121, 115>>, q.keys, TRUE)
    \o QueryField(<<115, 101, 112, 97, 114, 97, 116, 111, 114>>, q.separator, FALSE)

\* RequestBuilder::query: the pairs joined by '&'; a URL gets no query at
\* all when there is no pair
rb_query(rb, q) ==
    LET pairs == QueryPairs(q)
    IN  [rb EXCEPT !.query = IF pairs = <<>> THEN None ELSE Some(JoinWith(pairs, 38))]

\* RequestBuilder::json: the body is the JSON text, and the content type is
\* set to application/json unless one is set already
rb_json(rb, v) ==
    [rb EXCEPT !.body = Some(ToJson(v)),
               !.content_type = IF IsSome(rb.content_type) THEN rb.content_type
                                ELSE Some("application/json")]

\* RequestBuilder::body: the body is replaced
rb_body(rb, v) == [rb EXCEPT !.body = Some(v)]

\* Client::request
rb_new(method, url) ==
    [method |-> method, url |-> url, query |-> None, body |-> None,
     content_type |-> None]

\* Helper::apply_if for reqwest::RequestBuilder, fun being one of the two
\* closures of send_request: |k, v| k.json(&v) and |k, v| k.body(v)
apply_if(self, val, fun) ==
    IF IsSome(val)
    THEN IF fun = "json" THEN rb_json(self, val[1]) ELSE rb_body(self, val[1])
    ELSE self

\* Kv::send_request up to .send(): the request put on the wire, or the
\* error of Url::join
send_request_build(self, method, cl) ==
    LET url == UrlJoin(cl.url, self.path)
    IN  IF ~url.ok THEN url
        ELSE Ok(apply_if(apply_if(rb_query(rb_new(method, url.v[1]), self.query),
                                  self.payload, "json"),
                         self.body, "body"))

----------------------------------------------------------------------------
(* The response: what the wire delivers is a transport error or a status   *)
(* with the body's text                                                    *)

WireError == [arrived |-> FALSE, status |-> 0, text |-> <<>>]
Wire(status, text) == [arrived |-> TRUE, status |-> status, text |-> text]

\* Result::ok
ResultOk(r) == IF r.ok THEN Some(r.v[1]) ELSE None

\* Kv::send_request from .send().await on: the Response envelope
send_request(built, wire) ==
    IF ~built.ok THEN built
    ELSE IF ~wire.arrived THEN Err("transport")
    ELSE Ok([status |-> wire.status,
             json |-> ResultOk(FromJson(wire.text)),
             raw |-> wire.text])

\* Response::is_success
is_success(self) == self.status = 200

----------------------------------------------------------------------------
(* Record and the conversion of a Response *)

FieldCreateIndex == <<67, 114, 101, 97, 116, 101, 73, 110, 100, 101, 120>>
FieldFlags == <<70, 108, 97, 103, 115>>
FieldKey == <<75, 101, 121>>
FieldLockIndex == <<76, 111, 99, 107, 73, 110, 100, 101, 120>>
FieldModifyIndex == <<77, 111, 100, 105, 102, 121, 73, 110, 100, 101, 120>>
FieldValue == <<86, 97, 108, 117, 101>>

\* the fields of Record in declaration order, under their PascalCase names
RecordFields ==
    <<FieldCreateIndex, FieldFlags, FieldKey, FieldLockIndex, FieldModifyIndex,
      FieldValue>>

\* whether a JSON value deserializes into field i of Record: usize for the
\* indices and the flags, String for key and value
FieldTypeOk(i, j) ==
    IF i \in {3, 6} THEN j.t = "str"
    ELSE j.t = "num" /\ j.n >= 0

MakeRecord(f) ==
    [create_index |-> f[1].n, flags |-> f[2].n, key |-> f[3].s,
     lock_index |-> f[4].n, modify_index |-> f[5].n, value |-> f[6].s]

\* derive(Deserialize) for Record from a serde_json::Value: a map with the
\* six fields (others are ignored), or a sequence of the six fields in
\* declaration order
RecordFromValue(j) ==
    IF j.t = "obj" THEN
        LET f == [i \in 1..6 |-> MapGet(j, RecordFields[i])]
        IN  IF \A i \in 1..6 : IsSome(f[i]) /\ FieldTypeOk(i, f[i][1])
            THEN Ok(MakeRecord([i \in 1..6 |-> f[i][1]]))
            ELSE Err("json")
    ELSE IF j.t = "arr" THEN
        IF Len(j.a) = 6 /\ \A i \in 1..6 : FieldTypeOk(i, j.a[i])
        THEN Ok(MakeRecord(j.a))
        ELSE Err("json")
    ELSE Err("json")

\* serde_json::from_value::<Vec<Record>>
VecRecordFromValue(j) ==
    IF j.t # "arr" THEN Err("json")
    ELSE LET rs == [i \in 1..Len(j.a) |-> RecordFromValue(j.a[i])]
         IN  IF \A i \in 1..Len(j.a) : rs[i].ok
             THEN Ok([i \in 1..Len(j.a) |-> rs[i].v[1]])
             ELSE Err("json")

\* impl TryFrom<Response> for Vec<Record>
try_from(value) ==
    IF ~IsSome(value.json) THEN Err("No JSON in response")
    ELSE VecRecordFromValue(value.json[1])

\* the first element in place of the last
Pop_first(v) == IF Len(v) = 0 THEN None ELSE Some(v[1])

\* Vec::pop
Pop(v) == IF Len(v) = 0 THEN None ELSE Some(v[Len(v)])

\* Record::value_as_slice
value_as_slice(self) == B64Decode(self.value)

\* Record::value parsing the stored text without decoding it
value_undecoded(self) == FromJson(self.value)

\* Record::value
value(self) ==
    LET slice == value_as_slice(self)
    IN  IF ~slice.ok THEN slice ELSE FromJson(slice.v[1])

----------------------------------------------------------------------------
(* The verbs.  Each is given the Operation it was called on and, through   *)
(* rs, the outcome of its send_request.                                    *)

StatusNotFound == 404

\* Kv::get converting the response before it looks at the status
get_convert_first(rs) ==
    IF ~rs.ok THEN rs
    ELSE LET key == try_from(rs.v[1])
         IN  IF ~key.ok THEN key
             ELSE IF rs.v[1].status = StatusNotFound THEN Ok(None)
             ELSE Ok(Pop(key.v[1]))

\* Kv::get after send_request
get(rs) ==
    IF ~rs.ok THEN rs
    ELSE IF rs.v[1].status = StatusNotFound THEN Ok(None)
    ELSE LET key == try_from(rs.v[1])
         IN  IF ~key.ok THEN key ELSE Ok(Pop(key.v[1]))

\* Kv::put after send_request
put(rs) == rs

\* Kv::delete turning every status but 200 into an error
delete_checked(rs) == IF rs.ok /\ ~is_success(rs.v[1]) THEN Err("status") ELSE rs

\* Kv::delete after send_request
delete(rs) == rs

\* Kv::list keeping a recurse the caller set
list_self_keep(self) == IF IsSome(self.query.recurse) THEN self ELSE recurse(self, TRUE)

\* Kv::list: the Operation handed to send_request
list_self(self) == recurse(self, TRUE)

\* Kv::list after send_request
list(rs) ==
    IF ~rs.ok THEN rs
    ELSE IF rs.v[1].status = StatusNotFound THEN Ok(<<>>)
    ELSE try_from(rs.v[1])

\* the Operation a verb hands to send_request, and its HTTP method
VerbSelf(v, self) == IF v = "list" THEN list_self(self) ELSE self
VerbMethod(v) ==
    CASE v = "get" -> "GET" [] v = "list" -> "GET" [] v = "put" -> "PUT"
      [] v = "delete" -> "DELETE"
VerbResult(v, rs) ==
    CASE v = "get" -> get(rs) [] v = "list" -> list(rs) [] v = "put" -> put(rs)
      [] v = "delete" -> delete(rs)

----------------------------------------------------------------------------
(* The store: Consul's KV endpoint, mounted at /v1/kv/ of the host the     *)
(* Client of tests::it_works names.  It holds one entry per key; a read    *)
(* answers 404 with an empty body when nothing matches, and a JSON array   *)
(* of entries in key order otherwise, the value base64 encoded and null    *)
(* when it is empty.                                                       *)

KvRoot == <<47, 118, 49, 47, 107, 118, 47>>

\* the parameters of a request's query string, each <<name, value>>
QueryParams(q) ==
    IF ~IsSome(q) THEN <<>>
    ELSE LET pairs == Split(q[1], 38)
         IN  [i \in 1..Len(pairs) |-> Split(pairs[i], 61)]

HasParam(q, name) == \E i \in 1..Len(QueryParams(q)) : QueryParams(q)[i][1] = name

RECURSIVE SortKeys(_)
\* the texts of a set in ascending order
SortKeys(S) ==
    IF S = {} THEN <<>>
    ELSE LET m == CHOOSE k \in S : \A o \in S \ {k} : StrLess(k, o)
         IN  <<m>> \o SortKeys(S \ {m})

StoreKeys(st) == {e.key : e \in st}
StoreEntry(st, k) == CHOOSE e \in st : e.key = k

\* one entry as the store writes it
StoreRecord(e) ==
    JObj(<<FieldLockIndex, FieldKey, FieldFlags, FieldValue, FieldCreateIndex,
           FieldModifyIndex>>,
         <<JNum(0), JStr(e.key), JNum(0),
           IF e.value = <<>> THEN JNull ELSE JStr(B64Encode(e.value)),
           JNum(e.create), JNum(e.modify)>>)

\* the keys a read is about: the key itself, or with recurse every key it prefixes
StoreMatch(st, req) ==
    LET k == SubSeq(req.url, Len(KvRoot) + 1, Len(req.url))
    IN  IF HasParam(req.query, <<114, 101, 99, 117, 114, 115, 101>>)
        THEN {x \in StoreKeys(st) : IsPrefix(k, x)}
        ELSE {x \in StoreKeys(st) : x = k}

\* the store's answer to a request
StoreAnswer(st, req) ==
    IF ~IsPrefix(KvRoot, req.url) THEN Wire(404, <<>>)
    ELSE IF req.method = "GET" THEN
        LET ks == SortKeys(StoreMatch(st, req))
        IN  IF ks = <<>> THEN Wire(404, <<>>)
            ELSE Wire(200, ToJson(JArr([i \in 1..Len(ks) |->
                                            StoreRecord(StoreEntry(st, ks[i]))])))
    ELSE Wire(200, <<116, 114, 117, 101>>)

\* the store after a request; idx is the index the write gets
StoreApply(st, idx, req) ==
    LET k == SubSeq(req.url, Len(KvRoot) + 1, Len(req.url))
        old == {e \in st : e.key = k}
        val == IF IsSome(req.body) THEN req.body[1] ELSE <<>>
    IN  IF ~IsPrefix(KvRoot, req.url) \/ req.method = "GET" THEN st
        ELSE IF req.method = "DELETE" THEN st \ old
        ELSE (st \ old) \cup
             {[key |-> k, value |-> val, modify |-> idx,
               create |-> IF old = {} THEN idx ELSE (CHOOSE e \in old : TRUE).create]}

----------------------------------------------------------------------------
(* Inputs *)

\* the most writes and deletes the store is sent
MaxIndex == 3
\* the most elements of a JSON array an arbitrary server answers with
MaxRecs == 2

\* {"S":"T"} and 7
Payloads == {JObj(<<<<83>>>>, <<JStr(<<84>>)>>), JNum(7)}
\* "x"
Bodies == {<<120>>}
\* "dc1", "dc2"
DcValues == {<<100, 99, 49>>, <<100, 99, 50>>}
\* "/", ","
SeparatorValues == {<<47>>, <<44>>}

\* the keys written and read: "p/a", "p/b"
KeyPaths == {<<112, 47, 97>>, <<112, 47, 98>>}
\* the prefixes listed: "p/", "p/a", "z/"
Prefixes == {<<112, 47>>, <<112, 47, 97>>, <<122, 47>>}

\* the base URLs of a Client: "http://localhost:8500", then the same with
\* the paths "/consul/" and "/consul"
Bases == {<<>>, <<47, 99, 111, 110, 115, 117, 108, 47>>, <<47, 99, 111, 110, 115, 117, 108>>}
\* key paths given to Kv::new: "k", "p/", "../k"
BuildPaths == {<<107>>, <<112, 47>>, <<46, 46, 47, 107>>}

\* what an arbitrary server may put into a JSON array: two well-formed
\* entries, an object without the fields, an entry whose Value is null, the
\* six fields as a positional array, and a string
WireElems ==
    {ToJson(StoreRecord([key |-> <<107>>, value |-> <<55>>, create |-> 1, modify |-> 1])),
     ToJson(StoreRecord([key |-> <<113>>, value |-> <<120>>, create |-> 2, modify |-> 3])),
     ToJson(JObj(<<FieldKey>>, <<JStr(<<107>>)>>)),
     ToJson(StoreRecord([key |-> <<107>>, value |-> <<>>, create |-> 1, modify |-> 1])),
     ToJson(JArr(<<JNum(1), JNum(0), JStr(<<107>>), JNum(0), JNum(1), JStr(<<78, 119, 61, 61>>)>>)),
     ToJson(JStr(<<107>>))}

\* the bodies of an arbitrary server: arrays of at most MaxRecs elements, and
\* the texts "", "x", "null", "7", "{}" and a single entry outside an array
WireBodies ==
    {<<91>> \o JoinWith(a, 44) \o <<93>> :
        a \in UNION {[1..n -> WireElems] : n \in 0..MaxRecs}}
    \cup {<<>>, <<120>>, <<110, 117, 108, 108>>, <<55>>, <<123, 125>>}
    \cup {ToJson(StoreRecord([key |-> <<107>>, value |-> <<55>>, create |-> 1, modify |-> 1]))}

\* everything the wire may deliver
WireAnswers ==
    {WireError} \cup {Wire(st, b) : st \in {200, 404, 500}, b \in WireBodies}

\* the answers used while the request is what is examined
BuildAnswers == {Wire(200, <<91, 93>>), Wire(404, <<>>)}

----------------------------------------------------------------------------
(* State *)

\* no setter called yet
NoCalls ==
    [path |-> None, dc |-> None, recurse |-> None, raw |-> None, keys |-> None,
     separator |-> None, payload |-> None, body |-> None]

\* client:   the Client every request goes through
\* kv:       the Kv under construction, None once a verb has consumed it
\* called:   the arguments of the caller's last Kv::new and setter calls
\* verb:     the verb that consumed the Kv, "none" before
\* sent:     the Kv handed to send_request
\* request:  the request put on the wire
\* response: what the wire delivered
\* result:   what the verb returned
\* store:    the entries of the store
\* index:    the number of writes and deletes the store has seen
\* written:  per key path, the payload of the last put when payload puts
\*           are the last write to it
InitState ==
    /\ kv = None
    /\ called = NoCalls
    /\ verb = "none"
    /\ sent = None
    /\ request = None
    /\ response = None
    /\ result = None
    /\ store = {}
    /\ index = 0
    /\ written = [k \in KeyPaths |-> None]

\* tests::it_works: Client::new("http://localhost:8500")
Init == client = ClientNew(<<>>) /\ InitState

InitBuild == client \in {ClientNew(b) : b \in Bases} /\ InitState

----------------------------------------------------------------------------
(* The builder, one step per call *)

New(p) ==
    /\ kv' = Some(KvNew(p))
    /\ called' = [NoCalls EXCEPT !.path = Some(p)]
    /\ verb' = "none"
    /\ sent' = None /\ request' = None /\ response' = None /\ result' = None
    /\ UNCHANGED <<client, store, index, written>>

Set(k2, c2) ==
    /\ IsSome(kv)
    /\ kv' = Some(k2)
    /\ called' = c2
    /\ UNCHANGED <<client, verb, sent, request, response, result, store, index, written>>

SetDc == \E v \in DcValues :
    Set(dc(kv[1], v), [called EXCEPT !.dc = Some(v)])
SetRecurse == \E v \in BOOLEAN :
    Set(recurse(kv[1], v), [called EXCEPT !.recurse = Some(v)])
SetRaw == \E v \in BOOLEAN :
    Set(raw(kv[1], v), [called EXCEPT !.raw = Some(v)])
SetKeys == \E v \in BOOLEAN :
    Set(keys(kv[1], v), [called EXCEPT !.keys = Some(v)])
SetSeparator == \E v \in SeparatorValues :
    Set(separator(kv[1], v), [called EXCEPT !.separator = Some(v)])
SetPayload == \E v \in Payloads :
    Set(payload(kv[1], v), [called EXCEPT !.payload = Some(v)])
SetBody == \E v \in Bodies :
    Set(body(kv[1], v), [called EXCEPT !.body = Some(v)])

\* a verb called on self whose request the wire answers with w
Run(v, self, w) ==
    LET op == VerbSelf(v, self)
        built == send_request_build(op, VerbMethod(v), client)
    IN  /\ verb' = v
        /\ kv' = None
        /\ sent' = Some(op)
        /\ request' = ResultOk(built)
        /\ response' = Some(w)
        /\ result' = Some(VerbResult(v, send_request(built, w)))

\* a verb against a server answering anything in W
Verb(v, W) ==
    /\ \E w \in W : Run(v, kv[1], w)
    /\ UNCHANGED <<client, called, store, index, written>>

BuildNew == \E p \in BuildPaths : New(p)
BuildGet == IsSome(kv) /\ Verb("get", BuildAnswers)
BuildPut == IsSome(kv) /\ Verb("put", BuildAnswers)
BuildDelete == IsSome(kv) /\ Verb("delete", BuildAnswers)
BuildList == IsSome(kv) /\ Verb("list", BuildAnswers)

NextBuild ==
    \/ BuildNew
    \/ SetDc \/ SetRecurse \/ SetRaw \/ SetKeys \/ SetSeparator
    \/ SetPayload \/ SetBody
    \/ BuildGet \/ BuildPut \/ BuildDelete \/ BuildList

\* the builder and the request it dispatches, for every base URL
SpecBuild == InitBuild /\ [][NextBuild]_vars

WireNew == New(<<107>>)
WireGet == IsSome(kv) /\ Verb("get", WireAnswers)
WirePut == IsSome(kv) /\ Verb("put", WireAnswers)
WireDelete == IsSome(kv) /\ Verb("delete", WireAnswers)
WireList == IsSome(kv) /\ Verb("list", WireAnswers)

NextWire == WireNew \/ WireGet \/ WirePut \/ WireDelete \/ WireList

\* the verbs against a server that answers anything
SpecWire == Init /\ [][NextWire]_vars

----------------------------------------------------------------------------
(* The statements of tests::it_works against the store: a whole call chain *)
(* Kv::new(p)[.payload(v)][.body(b)].verb(&client) per step                *)

\* the chain on self, answered by the store
Chain(v, p, self) ==
    LET op == VerbSelf(v, self)
        built == send_request_build(op, VerbMethod(v), client)
        req == built.v[1]
        write == v \in {"put", "delete"}
    IN  /\ built.ok
        /\ Run(v, self, StoreAnswer(store, req))
        /\ store' = StoreApply(store, index + 1, req)
        /\ index' = IF write THEN index + 1 ELSE index
        /\ called' = [NoCalls EXCEPT !.path = Some(p), !.payload = self.payload,
                                     !.body = self.body]
        /\ written' = IF write /\ p \in KeyPaths
                      THEN [written EXCEPT ![p] = IF v = "put" THEN self.payload ELSE None]
                      ELSE written
        /\ UNCHANGED client

PutPayload ==
    /\ index < MaxIndex
    /\ \E p \in KeyPaths, v \in Payloads : Chain("put", p, payload(KvNew(p), v))
PutBody ==
    /\ index < MaxIndex
    /\ \E p \in KeyPaths, b \in Bodies : Chain("put", p, body(KvNew(p), b))
PutBare ==
    /\ index < MaxIndex
    /\ \E p \in KeyPaths : Chain("put", p, KvNew(p))
Delete ==
    /\ index < MaxIndex
    /\ \E p \in KeyPaths : Chain("delete", p, KvNew(p))
Get ==
    /\ kv = None
    /\ \E p \in KeyPaths : Chain("get", p, KvNew(p))
List ==
    /\ kv = None
    /\ \E p \in Prefixes : Chain("list", p, KvNew(p))

Next == PutPayload \/ PutBody \/ PutBare \/ Delete \/ Get \/ List

Spec == Init /\ [][Next]_vars

----------------------------------------------------------------------------
(* Properties *)

TheResult == result[1]
TheRequest == request[1]
TheResponse == response[1]
Answered == verb # "none" /\ IsSome(response) /\ TheResponse.arrived

\* C1: once a payload V was put to key path P and no later put or delete
\* touched P, get on P returns Ok(Some(record)) and record.value() is Ok(V).
C1_PutThenGet ==
    (verb = "get" /\ IsSome(written[called.path[1]])) =>
        /\ TheResult.ok
        /\ IsSome(TheResult.v[1])
        /\ value(TheResult.v[1][1]) = Ok(written[called.path[1]][1])

\* a get of a key whose payload 7 replaced an earlier write
C1_Witness ==
    /\ verb = "get"
    /\ written[called.path[1]] = Some(JNum(7))
    /\ \E e \in store : e.key = called.path[1] /\ e.create < e.modify

C3_NotFound ==
    (verb \in {"get", "list"} /\ Answered /\ TheResponse.status = 404) =>
        TheResult = IF verb = "get" THEN Ok(None) ELSE Ok(<<>>)

\* a get answered 404 with a body that is a JSON array of a string
C3_Witness ==
    /\ verb = "get" /\ Answered
    /\ TheResponse.status = 404
    /\ TheResponse.text = <<91, 34, 107, 34, 93>>

\* C3, the store's side: get on a key the store does not hold returns
\* Ok(None), list on a prefix of no stored key returns Ok(empty vector).
C3_Absent ==
    /\ (verb = "get" /\ called.path[1] \notin StoreKeys(store)) => TheResult = Ok(None)
    /\ (verb = "list" /\ \A k \in StoreKeys(store) : ~IsPrefix(called.path[1], k)) =>
           TheResult = Ok(<<>>)

\* a JSON value that is an array of objects each carrying the six fields
\* of a Record with the expected types
IsRecordArray(j) ==
    /\ j.t = "arr"
    /\ \A i \in 1..Len(j.a) :
           /\ j.a[i].t = "obj"
           /\ \A f \in 1..6 :
                  /\ IsSome(MapGet(j.a[i], RecordFields[f]))
                  /\ FieldTypeOk(f, MapGet(j.a[i], RecordFields[f])[1])

\* C4: when the answer to get or list is not a 404 and its body is no JSON
\* or not an array of objects carrying the six Record fields with the expected
\* types, the verb returns an error.
C4_ConversionFails ==
    (/\ verb \in {"get", "list"} /\ Answered
     /\ TheResponse.status # 404
     /\ LET j == FromJson(TheResponse.text) IN ~j.ok \/ ~IsRecordArray(j.v[1]))
    => ~TheResult.ok

\* C5: the body of the request is the JSON text of the payload when a
\* payload was set (also when a raw body was set too), else the raw body
\* when one was set, else there is none.
C5_BodyChoice ==
    verb # "none" =>
        TheRequest.body =
            IF IsSome(called.payload) THEN Some(ToJson(called.payload[1]))
            ELSE IF IsSome(called.body) THEN called.body
            ELSE None

\* the value list dispatches for recurse, else the last one the caller set
Dispatched(f) == IF verb = "list" /\ f = "recurse" THEN Some(TRUE) ELSE called[f]

QueryNames ==
    [dc |-> <<100, 99>>, recurse |-> <<114, 101, 99, 117, 114, 115, 101>>,
     raw |-> <<114, 97, 119>>, keys |-> <<107, 101, 121, 115>>,
     separator |-> <<115, 101, 112, 97, 114, 97, 116, 111, 114>>]

QueryText(f, v) == FormEncode(ValueText(v, f \notin {"dc", "separator"}))

\* C6: the query string of the dispatched request has one parameter for
\* each of dc, recurse, raw, keys, separator that was set (by the caller, or
\* recurse by list), carrying the last value set, and no other parameter;
\* with only recurse(true) set it is recurse=true, with nothing set there is
\* no query.
C6_QueryFields ==
    verb # "none" =>
        LET ps == QueryParams(TheRequest.query)
            F == DOMAIN QueryNames
        IN  /\ \A i \in 1..Len(ps) : \E f \in F : ps[i][1] = QueryNames[f]
            /\ \A f \in F :
                   LET at == {i \in 1..Len(ps) : ps[i][1] = QueryNames[f]}
                   IN  IF IsSome(Dispatched(f))
                       THEN /\ Cardinality(at) = 1
                            /\ \A i \in at : ps[i] = <<QueryNames[f], QueryText(f, Dispatched(f)[1])>>
                       ELSE at = {}
            /\ (\A f \in F : ~IsSome(Dispatched(f))) => TheRequest.query = None
            /\ (\A f \in F : IsSome(Dispatched(f)) <=> f = "recurse") =>
                   (Dispatched("recurse") = Some(TRUE) =>
                        TheRequest.query = Some(<<114, 101, 99, 117, 114, 115, 101, 61, 116, 114, 117, 101>>))

\* a put after dc was set twice and separator and keys once, recurse and raw never
C6_Witness ==
    /\ verb = "put"
    /\ called.dc = Some(<<100, 99, 50>>) /\ kv = None
    /\ called.separator = Some(<<47>>) /\ called.keys = Some(FALSE)
    /\ called.recurse = None /\ called.raw = None
    /\ TheRequest.query = Some(<<100, 99, 61, 100, 99, 50, 38, 107, 101, 121, 115, 61, 102, 97,
                                 108, 115, 101, 38, 115, 101, 112, 97, 114, 97, 116, 111, 114,
                                 61, 37, 50, 70>>)

\* the parts of the Operation other than recurse are as the caller set them
SentAsCalled ==
    /\ sent[1].path = <<118, 49, 47, 107, 118, 47>> \o called.path[1]
    /\ sent[1].query.dc = called.dc
    /\ sent[1].query.raw = called.raw
    /\ sent[1].query.keys = called.keys
    /\ sent[1].query.separator = called.separator
    /\ sent[1].payload = called.payload
    /\ sent[1].body = called.body

\* C7: list dispatches with recurse=true whatever the caller set and leaves
\* the rest of the Operation as the caller set it; get, put and delete
\* dispatch with the caller's recurse setting.
C7_ListForcesRecurse ==
    /\ verb = "list" =>
           /\ sent[1].query.recurse = Some(TRUE)
           /\ TheRequest.method = "GET"
           /\ \E i \in 1..Len(QueryParams(TheRequest.query)) :
                  QueryParams(TheRequest.query)[i] =
                      <<QueryNames.recurse, <<116, 114, 117, 101>>>>
           /\ SentAsCalled
    /\ verb \in {"get", "put", "delete"} =>
           /\ sent[1].query.recurse = called.recurse
           /\ SentAsCalled

\* a list after the caller set recurse(false) and a payload
C7_Witness ==
    /\ verb = "list"
    /\ called.recurse = Some(FALSE)
    /\ IsSome(called.payload)

\* C8: put and delete return Ok(envelope) with the answer's status and text
\* as they are, for every status and body; json is None for a body that is
\* empty or not JSON.
C8_RawEnvelope ==
    (verb \in {"put", "delete"} /\ Answered) =>
        /\ TheResult.ok
        /\ TheResult.v[1].status = TheResponse.status
        /\ TheResult.v[1].raw = TheResponse.text
        /\ TheResponse.text \in {<<>>, <<120>>} => TheResult.v[1].json = None
        /\ TheResponse.text = <<91, 93>> => TheResult.v[1].json = Some(JArr(<<>>))

\* a delete answered 404 with a body that is not JSON
C8_Witness ==
    /\ verb = "delete" /\ Answered
    /\ TheResponse.status = 404
    /\ TheResponse.text = <<120>>

\* C9: every verb sends its request to <base>/v1/kv/K, for every base URL
\* and key path K.
C9_UnderBase ==
    verb # "none" =>
        /\ IsSome(request)
        /\ TheRequest.url =
               (IF client.url[Len(client.url)] = 47 THEN Front(client.url) ELSE client.url)
               \o <<47, 118, 49, 47, 107, 118, 47>> \o called.path[1]

\* C10: for a get whose answer is not a 404 and whose JSON converts to n
\* Records, the result is Ok(None) when n = 0 and Ok(Some(r)) with r the
\* last Record in the order of the response when n >= 1.
C10_LastRecord ==
    (/\ verb = "get" /\ Answered
     /\ TheResponse.status # 404
     /\ FromJson(TheResponse.text).ok
     /\ LET j == FromJson(TheResponse.text).v[1]
        IN  j.t = "arr" /\ \A i \in 1..Len(j.a) : RecordFromValue(j.a[i]).ok)
    => LET a == FromJson(TheResponse.text).v[1].a
       IN  TheResult = IF Len(a) = 0 THEN Ok(None)
                       ELSE Ok(Some(RecordFromValue(a[Len(a)]).v[1]))

\* a get answered 200 with two entries, the last one for key "q"
C10_Witness ==
    /\ verb = "get" /\ Answered
    /\ TheResponse.status = 200
    /\ TheResult.ok /\ IsSome(TheResult.v[1])
    /\ TheResult.v[1][1].key = <<113>>
    /\ LET j == FromJson(TheResponse.text).v[1]
       IN  Len(j.a) = 2 /\ RecordFromValue(j.a[1]).v[1].key = <<107>>

====
